---- MODULE Spec2Model ----
(***************************************************************************)
(* The outfit-analysis flow of the Home screen (src/app/home.tsx):         *)
(* handleRunPipeline uploads the picked image with an XMLHttpRequest,      *)
(* raced against a 120 s timer and watched by a 5 s stall checker, then    *)
(* polls GET /job/{id} until the job is completed, failed or the attempt   *)
(* budget is spent.  The analysis service and the user are the             *)
(* environment: every response, progress event and timer expiry is a       *)
(* separate step of the JavaScript event loop.                             *)
(***************************************************************************)
EXTENDS Integers, Sequences, FiniteSets, TLC

\* ------------------------------------------------------------ constants

\* home.tsx:300  const maxAttempts = 300
maxAttempts == 300
\* home.tsx:287  setTimeout(..., 120000)
UploadTimeoutMs == 120000
\* home.tsx:272  timeSinceLastProgress > 30000
StallLimitMs == 30000
\* home.tsx:277  setInterval(..., 5000)
StallCheckMs == 5000
\* The clock (ms since the upload started) is followed up to this bound.
MaxClock == 140000
\* Status requests issued after a cancellation are counted up to this bound.
MaxAfterCancel == 2
\* Where two invocations are followed, the service answers `processing` at
\* most this many times to one job.
ShortPatience == 2

NULL == "null"

\* Images the picker can return (result.assets[0].uri).
Images == {"file:///a.jpg", "file:///b.jpg"}
\* getDefaultApiUrl()
DefaultApiUrl == "http://192.168.1.104:8000"
\* Texts the API-URL field can hold.
ApiUrls == {"", DefaultApiUrl}
\* The job id the service hands out for this upload.
JobIds == {"job-1"}
\* The job id the service hands out for the upload of a second invocation.
JobIdsB == {"job-2"}

\* Messages the service may put in an `error` field; "" is an absent field.
ServiceMessages == {"out of memory", "model timeout", "could not fetch weights", "job aborted"}

\* home.tsx:362-373: the substrings the catch block looks for are "timeout",
\* "timed out", "Network request failed", "fetch", "Failed to fetch",
\* "aborted" and "Abort".  Which of them occur in a message
\* (String.prototype.includes), tabulated for the messages of this model.
KeywordsOf(m) ==
  CASE m = "model timeout" -> {"timeout"}
    [] m = "could not fetch weights" -> {"fetch"}
    [] m = "job aborted" -> {"aborted"}
    [] m = "Upload timeout after 2 minutes. Image may be too large or network too slow." -> {"timeout"}
    [] m = "Status check timed out" -> {"timed out"}
    [] OTHER -> {}

Includes(m, w) == w \in KeywordsOf(m)

\* ------------------------------------------------------------ messages shown

Msg(kind, text) == [kind |-> kind, text |-> text]
NoMessage == Msg(NULL, "")

\* home.tsx:360-378: the catch block's choice of errorMessage.
CatchMessage(name, message) ==
  IF name = "AbortError" \/ Includes(message, "timeout") \/ Includes(message, "timed out")
  THEN Msg("took-too-long", "")
  ELSE IF Includes(message, "Network request failed") \/ Includes(message, "fetch")
          \/ Includes(message, "Failed to fetch")
  THEN Msg("cannot-connect", "")
  ELSE IF Includes(message, "aborted") \/ Includes(message, "Abort")
  THEN Msg("cancelled", "")
  ELSE Msg("error", message)

\* ------------------------------------------------------------ state

VARIABLES
  \* component state (useState)
  imageUri, apiUrl, uploading, resultMessage, results, currentStage,
  \* the invocation of handleRunPipeline
  pc, attempts, jobId, err,
  \* the upload XHR and its timers
  xhr, now, lastProgressTime, intervalActive, intervalDue, totalTimer,
  \* the status XHR
  statusXhr,
  \* history (not read by the program)
  uploadsSent, statusRequests, lastStatus, allProcessing, outcome,
  jobsCreated, cancelled, requestsAfterCancel, uploadEvent,
  serviceError, analysedImage, polled,
  \* a second invocation of handleRunPipeline: its position and its locals
  pcB, jobIdB, attemptsB,
  \* the environment: how many `processing` answers the service gives a job
  patience,
  \* pickImage in flight: awaiting the permission answer, or the picker open
  picker,
  \* PostCard (src/unnamed/part_004): component state, and the taps made so
  \* far with the state of their onLike / onSave requests (history)
  liked, likesCount, saved, savesCount, taps, cardStart,
  \* SearchBar (src/unnamed/part_005): the input's text, the pending timers of
  \* its debounce effect, the value prop, and what onChange delivered (history)
  barText, barTimers, barValue, sinceChange, delivered,
  \* Discover (src/app/create-post.tsx): component state, the feed requests
  \* in flight, the pending timer of the search effect, and the offsets
  \* requested so far (history)
  query, posts, page, loading, refreshing, hasMore, feedRequests, searchTimer,
  issued

compVars == <<imageUri, apiUrl, uploading, resultMessage, results, currentStage>>
invVars == <<pc, attempts, jobId, err>>
xhrVars == <<xhr, now, lastProgressTime, intervalActive, intervalDue, totalTimer>>
histVars == <<uploadsSent, statusRequests, lastStatus, allProcessing, outcome,
              jobsCreated, cancelled, requestsAfterCancel, uploadEvent,
              serviceError, analysedImage, polled>>
bVars == <<pcB, jobIdB, attemptsB>>
homeVars == <<compVars, invVars, xhrVars, statusXhr, histVars, bVars, patience, picker>>
cardVars == <<liked, likesCount, saved, savesCount, taps, cardStart>>
barVars == <<barText, barTimers, barValue, sinceChange, delivered>>
feedVars == <<query, posts, page, loading, refreshing, hasMore, feedRequests, searchTimer,
              issued>>
\* The components other than the Home screen.
screenVars == <<cardVars, barVars, feedVars>>
vars == <<homeVars, screenVars>>

\* The other components are not on screen while Home is followed, nor is
\* Home while one of them is.
CardAtRest ==
  /\ liked = FALSE /\ likesCount = 0 /\ saved = FALSE /\ savesCount = 0
  /\ taps = <<>> /\ cardStart = NULL
BarAtRest ==
  /\ barText = <<>> /\ barTimers = {} /\ barValue = <<>>
  /\ sinceChange = 0 /\ delivered = {}
FeedAtRest ==
  /\ query = "" /\ posts = <<>> /\ page = 0 /\ loading = FALSE
  /\ refreshing = FALSE /\ hasMore = TRUE /\ feedRequests = {}
  /\ searchTimer = {} /\ issued = <<>>

\* home.tsx:30-34, 53: the state after the first render, with a service that
\* answers `processing` up to p times.
HomeInit(p) ==
  /\ imageUri = NULL
  /\ apiUrl = DefaultApiUrl
  /\ uploading = FALSE
  /\ resultMessage = NoMessage
  /\ results = NULL
  /\ currentStage = 0
  /\ pc = "idle"
  /\ attempts = 0
  /\ jobId = NULL
  /\ err = NULL
  /\ xhr = "unsent"
  /\ now = 0
  /\ lastProgressTime = 0
  /\ intervalActive = FALSE
  /\ intervalDue = FALSE
  /\ totalTimer = "unset"
  /\ statusXhr = "none"
  /\ uploadsSent = 0
  /\ statusRequests = 0
  /\ lastStatus = "none"
  /\ allProcessing = TRUE
  /\ outcome = "none"
  /\ jobsCreated = 0
  /\ cancelled = FALSE
  /\ requestsAfterCancel = 0
  /\ uploadEvent = "none"
  /\ serviceError = ""
  /\ analysedImage = NULL
  /\ polled = [A |-> {}, B |-> {}]
  /\ pcB = "idle"
  /\ jobIdB = NULL
  /\ attemptsB = 0
  /\ patience = p
  /\ picker = "closed"

InitWith(p) == HomeInit(p) /\ CardAtRest /\ BarAtRest /\ FeedAtRest

\* The service may answer `processing` to every check the loop can make.
Init == InitWith(maxAttempts)

\* ------------------------------------------------------------ user actions

\* home.tsx:76-107 pickImage, behind the Add Photo button (disabled while
\* uploading, home.tsx:492-496).  The picker is modal: permission denied,
\* picker dismissed, or one image chosen.
PickImage ==
  /\ ~uploading
  /\ picker = "closed"
  /\ \/ /\ resultMessage' = Msg("permission-denied", "")
        /\ UNCHANGED <<imageUri, currentStage>>
     \/ /\ resultMessage' = NoMessage
        /\ UNCHANGED <<imageUri, currentStage>>
     \/ \E uri \in Images :
          /\ resultMessage' = NoMessage
          /\ imageUri' = uri
          /\ currentStage' = 1
  /\ UNCHANGED <<apiUrl, uploading, results, invVars, xhrVars, statusXhr, histVars,
                 bVars, patience, picker, screenVars>>

\* home.tsx:418-421 the API-URL field, onChangeText={setApiUrl}.  The handler
\* reads apiUrl once, when it starts (home.tsx:184), so edits are followed up
\* to that point.
SetApiUrl ==
  /\ pc = "idle"
  /\ picker # "open"
  /\ \E u \in ApiUrls : u # apiUrl /\ apiUrl' = u
  /\ UNCHANGED <<imageUri, uploading, resultMessage, results, currentStage,
                 invVars, xhrVars, statusXhr, histVars, bVars, patience, picker, screenVars>>

\* home.tsx:501-505 the Analyze button is enabled, and no picker covers it.
CanPressAnalyze == ~uploading /\ imageUri # NULL /\ picker # "open"

\* home.tsx:184-191 handleRunPipeline returns early when no API URL is set
\* (it only shows an alert).
RunWithoutApiUrl ==
  /\ pc = "idle"
  /\ CanPressAnalyze
  /\ apiUrl = ""
  /\ UNCHANGED vars

\* ------------------------------------------------------------ handleRunPipeline

\* A catch block that goes back to uploading instead of ending.
ThrowRetries(name, message, oc) ==
  /\ err' = message
  /\ resultMessage' = CatchMessage(name, message)
  /\ currentStage' = 1
  /\ uploading' = TRUE
  /\ pc' = "uploading"
  /\ outcome' = oc

\* A catch block without its setCurrentStage(1).
ThrowKeepsStage(name, message, oc) ==
  /\ err' = message
  /\ resultMessage' = CatchMessage(name, message)
  /\ currentStage' = currentStage
  /\ uploading' = FALSE
  /\ pc' = "done"
  /\ outcome' = oc

\* home.tsx:357-384 catch and finally: the thrown error ends the invocation.
Throw(name, message, oc) ==
  /\ err' = message
  /\ resultMessage' = CatchMessage(name, message)
  /\ currentStage' = 1
  /\ uploading' = FALSE
  /\ pc' = "done"
  /\ outcome' = oc

\* home.tsx:178-282 handleRunPipeline up to its first await: the state is
\* reset, the upload XHR is sent, the stall checker and the 120 s timer start.
StartUpload ==
  /\ pc = "idle"
  /\ CanPressAnalyze
  /\ apiUrl # ""
  /\ uploading' = TRUE
  /\ resultMessage' = Msg("uploading", "")
  /\ results' = NULL
  /\ currentStage' = 2
  /\ pc' = "uploading"
  /\ xhr' = "inflight"
  /\ now' = 0
  /\ lastProgressTime' = 0
  /\ intervalActive' = TRUE
  /\ intervalDue' = FALSE
  /\ totalTimer' = "armed"
  /\ uploadsSent' = uploadsSent + 1
  /\ analysedImage' = imageUri
  /\ UNCHANGED <<imageUri, apiUrl, attempts, jobId, err, statusXhr, statusRequests,
                 lastStatus, allProcessing, outcome, jobsCreated, cancelled,
                 requestsAfterCancel, uploadEvent, serviceError, polled, bVars,
                 patience, picker, screenVars>>

\* Responses of POST /upload-outfit: HTTP status, whether the body is JSON,
\* and the fields of { success, job_id?, error? }.
UploadResponses ==
  [status : {200, 500}, parsable : BOOLEAN, success : BOOLEAN,
   job_id : {""} \cup JobIds, error : {""} \cup ServiceMessages]

Resolve(data) == [settle |-> "resolve", data |-> data, message |-> ""]
Reject(message) == [settle |-> "reject", data |-> NULL, message |-> message]

\* onload without its test of the HTTP status.
UploadOnloadIgnoresStatus(r) ==
  IF r.parsable THEN Resolve(r) ELSE Reject("Failed to parse upload response")

\* home.tsx:228-244 xhr.onload of the upload.
UploadOnload(r) ==
  IF r.status >= 200 /\ r.status < 300
  THEN IF r.parsable THEN Resolve(r) ELSE Reject("Failed to parse upload response")
  ELSE IF r.parsable /\ r.error # ""
       THEN Reject(r.error)
       ELSE Reject("Server error: " \o ToString(r.status))

\* The test of the upload response without its test of the job id.
NoJobStartedIgnoresJobId(data) == ~data.success

\* home.tsx:291-293 the upload response starts no job.
NoJobStarted(data) == ~data.success \/ data.job_id = ""

\* The attempt counter started at one.
InitialAttemptsOne == 0 + 1

\* home.tsx:299 let attempts = 0
InitialAttempts == 0

\* The loop condition, one attempt too generous.
LoopCondOffByOne(a) == a <= maxAttempts

\* home.tsx:302 the loop condition.
LoopCond(a) == a < maxAttempts

\* home.tsx:291-303 after the upload resolved: take the job id and enter the
\* polling loop (its first wait).
AfterUpload(data) ==
  IF NoJobStarted(data)
  THEN /\ Throw("Error", "Failed to start processing", "UploadFailed")
       /\ UNCHANGED <<attempts, jobId>>
  ELSE /\ jobId' = data.job_id
       /\ attempts' = InitialAttempts
       /\ resultMessage' = Msg("processing", "")
       /\ pc' = "pollWait"
       /\ UNCHANGED <<err, currentStage, uploading, outcome>>

\* What the service answered to the upload, as the boundary contract names it.
UploadResponseKind(r) ==
  IF ~(r.status >= 200 /\ r.status < 300) THEN "http-error"
  ELSE IF ~r.parsable THEN "unparsable"
  ELSE IF ~r.success \/ r.job_id = "" THEN "no-job"
  ELSE "accepted"

\* home.tsx:279 the upload XHR has ended (load, error or abort): onloadend
\* stops the stall checker.  The clock and lastProgressTime are locals of the
\* upload promise that nothing reads any more; they go back to 0.
XhrEnds(how) ==
  /\ xhr' = how
  /\ intervalActive' = FALSE
  /\ intervalDue' = FALSE
  /\ now' = 0
  /\ lastProgressTime' = 0

\* The upload XHR gets its response: onload settles the upload promise, and
\* onloadend stops the stall checker (home.tsx:279).  The settled promise
\* matters only while the invocation still awaits the race.
UploadLoad ==
  /\ xhr = "inflight"
  /\ IF pc = "uploading"
     THEN \E r \in UploadResponses :
            /\ jobsCreated' = IF r.status = 200 /\ r.success /\ r.job_id # ""
                              THEN jobsCreated + 1 ELSE jobsCreated
            /\ uploadEvent' = UploadResponseKind(r)
            /\ LET s == UploadOnload(r) IN
               IF s.settle = "resolve"
               THEN AfterUpload(s.data)
               ELSE /\ Throw("Error", s.message, "UploadFailed")
                    /\ UNCHANGED <<attempts, jobId>>
     ELSE \* nobody awaits the promise: only whether a job was created matters
          /\ \E created \in {0, 1} : jobsCreated' = jobsCreated + created
          /\ UNCHANGED <<err, resultMessage, currentStage, uploading, pc, outcome,
                         attempts, jobId, uploadEvent>>
  /\ XhrEnds("loaded")
  /\ UNCHANGED <<imageUri, apiUrl, results, totalTimer, statusXhr,
                 uploadsSent, statusRequests, lastStatus, allProcessing, cancelled,
                 requestsAfterCancel, serviceError, analysedImage, polled, bVars,
                 patience, picker, screenVars>>

\* home.tsx:246-254 xhr.onerror of the upload (then onloadend).
UploadNetworkError ==
  /\ xhr = "inflight"
  /\ IF pc = "uploading"
     THEN /\ Throw("Error", "Upload failed. Server is not responding.", "UploadFailed")
          /\ uploadEvent' = "network-error"
     ELSE UNCHANGED <<err, resultMessage, currentStage, uploading, pc, outcome, uploadEvent>>
  /\ XhrEnds("error")
  /\ UNCHANGED <<imageUri, apiUrl, results, attempts, jobId,
                 totalTimer, statusXhr, uploadsSent, statusRequests, lastStatus,
                 allProcessing, jobsCreated, cancelled, requestsAfterCancel,
                 serviceError, analysedImage, polled, bVars, patience, picker, screenVars>>

\* home.tsx:257-264 xhr.upload.onprogress with a computable length.
UploadProgress ==
  /\ xhr = "inflight"
  /\ resultMessage' = Msg("upload-progress", "")
  /\ lastProgressTime' = now
  /\ UNCHANGED <<imageUri, apiUrl, uploading, results, currentStage, invVars, xhr, now,
                 intervalActive, intervalDue, totalTimer, statusXhr, histVars,
                 bVars, patience, picker, screenVars>>

\* ------------------------------------------------------------ upload timers

\* Time passes, 5 s at a time, while the upload XHR is in flight: `now` is
\* Date.now() - uploadStartTime, read only by the upload's handlers.  Every
\* 5 s the stall checker comes due, and at 120 s the total timer does.
Tick ==
  /\ xhr = "inflight"
  /\ ~intervalDue
  /\ totalTimer # "due"
  /\ now + StallCheckMs <= MaxClock
  /\ now' = now + StallCheckMs
  /\ intervalDue' = intervalActive
  /\ totalTimer' = IF totalTimer = "armed" /\ now' >= UploadTimeoutMs
                   THEN "due" ELSE totalTimer
  /\ UNCHANGED <<compVars, invVars, xhr, lastProgressTime, intervalActive, statusXhr,
                 histVars, bVars, patience, picker, screenVars>>

\* The stall test with >= in place of >.
StalledAtLimit(t, last) == t - last >= StallLimitMs

\* home.tsx:268-272 the stall test.
Stalled(t, last) == t - last > StallLimitMs

\* home.tsx:267-277 the stall checker's callback.
StallCheck ==
  /\ intervalDue
  /\ IF Stalled(now, lastProgressTime)
     THEN /\ XhrEnds("aborted")
          /\ IF pc = "uploading"
             THEN /\ Throw("Error", "Upload stalled. Network may be too slow.",
                           "UploadFailed")
                  /\ uploadEvent' = "stalled"
             ELSE UNCHANGED <<err, resultMessage, currentStage, uploading, pc, outcome,
                              uploadEvent>>
     ELSE /\ intervalDue' = FALSE
          /\ UNCHANGED <<intervalActive, xhr, now, lastProgressTime, err, resultMessage,
                         currentStage, uploading, pc, outcome, uploadEvent>>
  /\ UNCHANGED <<imageUri, apiUrl, results, attempts, jobId,
                 totalTimer, statusXhr, uploadsSent, statusRequests, lastStatus,
                 allProcessing, jobsCreated, cancelled, requestsAfterCancel,
                 serviceError, analysedImage, polled, bVars, patience, picker, screenVars>>

\* The race without its 120 s timer.
TotalTimerNeverExpires == FALSE

\* home.tsx:284-288 the 120 s timer of the race.  It is never cleared: once
\* the upload XHR has ended the clock is no longer followed and the timer
\* expires at some later step.
TotalTimerExpired == totalTimer = "due" \/ (totalTimer = "armed" /\ xhr # "inflight")

\* home.tsx:285-287 the timer's callback rejects the race; the XHR is left alone.
TotalTimeout ==
  /\ TotalTimerExpired
  /\ totalTimer' = "fired"
  /\ IF pc = "uploading"
     THEN /\ Throw("Error",
                   "Upload timeout after 2 minutes. Image may be too large or network too slow.",
                   "UploadFailed")
          /\ uploadEvent' = "timeout"
     ELSE UNCHANGED <<err, resultMessage, currentStage, uploading, pc, outcome, uploadEvent>>
  /\ UNCHANGED <<imageUri, apiUrl, results, attempts, jobId, xhr, now, lastProgressTime,
                 intervalActive, intervalDue, statusXhr, uploadsSent, statusRequests,
                 lastStatus, allProcessing, jobsCreated, cancelled, requestsAfterCancel,
                 serviceError, analysedImage, polled, bVars, patience, picker, screenVars>>

\* ------------------------------------------------------------ polling

\* Responses of GET /job/{id}: HTTP status, whether the body is JSON, and the
\* fields of { status, results?, error? }.
StatusResponses ==
  [status : {200, 500}, parsable : BOOLEAN,
   jobStatus : {"processing", "completed", "error"},
   results : {"undefined", "results"}, error : {""} \cup ServiceMessages]

\* The status request sent without awaiting the one in flight.
PollingAlready(at) == at \in {"pollWait", "statusInflight"}

\* home.tsx:303 the invocation is in the 1 s wait of the loop.
InPollWait(at) == at = "pollWait"

\* home.tsx:303-326 the 1 s wait of the loop is over: one status request is sent.
PollWaitElapsed ==
  /\ InPollWait(pc)
  /\ pc' = "statusInflight"
  /\ statusXhr' = "inflight"
  /\ statusRequests' = statusRequests + 1
  /\ requestsAfterCancel' =
       IF cancelled /\ requestsAfterCancel < MaxAfterCancel
       THEN requestsAfterCancel + 1 ELSE requestsAfterCancel
  /\ polled' = [polled EXCEPT !.A = @ \cup {jobId}]
  /\ UNCHANGED <<compVars, attempts, jobId, err, xhrVars, uploadsSent, lastStatus,
                 allProcessing, outcome, jobsCreated, cancelled, uploadEvent,
                 serviceError, analysedImage, bVars, patience, picker, screenVars>>

\* home.tsx:311-321 xhr.onload of the status request.
StatusOnload(r) ==
  IF r.status >= 200 /\ r.status < 300
  THEN IF r.parsable THEN Resolve(r) ELSE Reject("Failed to parse status response")
  ELSE Reject("Failed to check job status: " \o ToString(r.status))

\* The comparison with a status the service never sends.
IsCompletedMisspelt(data) == data.jobStatus = "complete"

\* home.tsx:329 statusData.status === 'completed'
IsCompleted(data) == data.jobStatus = "completed"

\* The comparison with a status the service never sends.
IsErrorMisspelt(data) == data.jobStatus = "failed"

\* home.tsx:347 statusData.status === 'error'
IsError(data) == data.jobStatus = "error"

\* home.tsx:352 attempts++
NextAttempts(a) == a + 1

\* home.tsx:348 the message of the error thrown for status `error`.
ProcessingError(data) == IF data.error # "" THEN data.error ELSE "Processing failed"

\* home.tsx:306-356 the status promise has settled and the loop body goes on:
\* a rejection is thrown out of the loop, `completed` returns, `error` throws,
\* anything else counts one attempt and either waits again or gives up.
AfterStatus(s) ==
  IF s.settle = "reject"
  THEN /\ Throw("Error", s.message, "StatusCheckFailed")
       /\ UNCHANGED <<attempts, results>>
  ELSE IF IsCompleted(s.data)
  THEN IF s.data.results = "undefined"
       THEN \* results.detections throws a TypeError after setResults and
            \* setCurrentStage(3); the catch block then sets the stage to 1
            /\ results' = s.data.results
            /\ Throw("TypeError", "Cannot read property 'detections' of undefined",
                     "SummaryFailed")
            /\ UNCHANGED attempts
       ELSE /\ results' = s.data.results
            /\ currentStage' = 3
            /\ resultMessage' = Msg("success", "")
            /\ uploading' = FALSE
            /\ pc' = "done"
            /\ outcome' = "Completed"
            /\ UNCHANGED <<err, attempts>>
  ELSE IF IsError(s.data)
  THEN /\ Throw("Error", ProcessingError(s.data), "ProcessingFailed")
       /\ UNCHANGED <<attempts, results>>
  ELSE /\ attempts' = NextAttempts(attempts)
       /\ IF LoopCond(attempts')
          THEN /\ pc' = "pollWait"
               /\ UNCHANGED <<err, resultMessage, currentStage, uploading, outcome>>
          ELSE Throw("Error", "Processing is taking longer than expected. Please try again.",
                     "PollTimeout")
       /\ UNCHANGED results

\* What the service answered to the status request, as the boundary contract
\* names it: a job status, or "failed" for a response that carries none.
StatusResponseKind(r) ==
  IF ~(r.status >= 200 /\ r.status < 300) \/ ~r.parsable THEN "failed" ELSE r.jobStatus

\* One status check has settled as s; obs is what the service did and said
\* the `error` field of its answer.
StatusSettled(s, xhrEnd, obs, said) ==
  /\ pc = "statusInflight"
  /\ AfterStatus(s)
  /\ statusXhr' = xhrEnd
  /\ lastStatus' = obs
  /\ allProcessing' = (allProcessing /\ obs = "processing")
  /\ serviceError' = IF obs = "error" THEN said ELSE serviceError
  /\ UNCHANGED <<imageUri, apiUrl, jobId, xhrVars, uploadsSent, statusRequests,
                 jobsCreated, cancelled, requestsAfterCancel, uploadEvent,
                 analysedImage, polled, bVars, patience, picker, screenVars>>

\* The status XHR gets its response.  The service answers `processing` only
\* while its patience with the job lasts.
StatusLoad ==
  \E r \in StatusResponses :
    /\ StatusResponseKind(r) = "processing" => attempts < patience
    /\ StatusSettled(StatusOnload(r), "loaded", StatusResponseKind(r), r.error)

\* home.tsx:323 xhr.onerror of the status request.
StatusNetworkError ==
  StatusSettled(Reject("Network error checking status"), "error", "failed", "")

\* home.tsx:309, 324 xhr.timeout = 10000 and xhr.ontimeout.
StatusTimeout ==
  StatusSettled(Reject("Status check timed out"), "timeout", "failed", "")

\* The caller gives up while the poll loop runs (the user leaves the screen).
\* handleRunPipeline (home.tsx:178) takes no cancellation signal and nothing
\* aborts its requests or leaves its loop: only the history records it.
Cancel ==
  /\ pc \in {"pollWait", "statusInflight"}
  /\ ~cancelled
  /\ cancelled' = TRUE
  /\ UNCHANGED <<compVars, invVars, xhrVars, statusXhr, uploadsSent, statusRequests,
                 lastStatus, allProcessing, outcome, jobsCreated, requestsAfterCancel,
                 uploadEvent, serviceError, analysedImage, polled, bVars, patience, picker, screenVars>>

\* ------------------------------------------------------------ specification

Next ==
  \/ PickImage
  \/ SetApiUrl
  \/ RunWithoutApiUrl
  \/ StartUpload
  \/ UploadLoad
  \/ UploadNetworkError
  \/ UploadProgress
  \/ Tick
  \/ StallCheck
  \/ TotalTimeout
  \/ PollWaitElapsed
  \/ StatusLoad
  \/ StatusNetworkError
  \/ StatusTimeout
  \/ Cancel

Spec == Init /\ [][Next]_vars

\* Timers expire and time passes; the service owes nothing.
FairSpec ==
  /\ Spec
  /\ WF_vars(Tick)
  /\ WF_vars(StallCheck)
  /\ WF_vars(TotalTimeout)
  /\ WF_vars(PollWaitElapsed)
  /\ WF_vars(StatusTimeout)

\* ------------------------------------------------------------ a second invocation

\* handleRunPipeline run once more (B) beside the invocation above (A).  B
\* executes the same lines; what it shares with A is the component state, and
\* its own job id and attempt counter are locals of its call.  The timing of
\* B's upload is not followed: its upload promise settles in one step.

\* home.tsx:193-217 B up to its first await: the component state is reset.
BStarts ==
  /\ pcB = "idle"
  /\ pc # "idle"
  /\ uploading' = TRUE
  /\ resultMessage' = Msg("uploading", "")
  /\ results' = NULL
  /\ currentStage' = 2
  /\ pcB' = "uploading"
  /\ analysedImage' = imageUri
  /\ UNCHANGED <<imageUri, apiUrl, invVars, xhrVars, statusXhr, uploadsSent,
                 statusRequests, lastStatus, allProcessing, outcome, jobsCreated,
                 cancelled, requestsAfterCancel, uploadEvent, serviceError, polled,
                 jobIdB, attemptsB, patience, picker, screenVars>>

\* home.tsx:501-505 the Analyze button is pressed again: it is enabled.
PressAnalyzeAgain ==
  /\ CanPressAnalyze
  /\ apiUrl # ""
  /\ BStarts

\* home.tsx:178-191 handleRunPipeline is called again while A is in flight,
\* not through the button: the handler itself tests only imageUri and apiUrl.
CallAgain ==
  /\ pc # "done"
  /\ imageUri # NULL
  /\ apiUrl # ""
  /\ BStarts

\* home.tsx:357-384 catch and finally of B.
ThrowB(name, message) ==
  /\ resultMessage' = CatchMessage(name, message)
  /\ currentStage' = 1
  /\ uploading' = FALSE
  /\ pcB' = "done"

\* home.tsx:257-264 xhr.upload.onprogress of B's upload.
UploadProgressB ==
  /\ pcB = "uploading"
  /\ resultMessage' = Msg("upload-progress", "")
  /\ UNCHANGED <<imageUri, apiUrl, uploading, results, currentStage, invVars, xhrVars,
                 statusXhr, histVars, bVars, patience, picker, screenVars>>

UploadResponsesB ==
  [status : {200, 500}, parsable : BOOLEAN, success : BOOLEAN,
   job_id : {""} \cup JobIdsB, error : {""} \cup ServiceMessages]

\* home.tsx:221-288 the ways B's upload race settles.
UploadSettlementsB ==
  {UploadOnload(r) : r \in UploadResponsesB}
    \cup {Reject("Upload failed. Server is not responding."),
          Reject("Upload stalled. Network may be too slow."),
          Reject("Upload timeout after 2 minutes. Image may be too large or network too slow.")}

\* home.tsx:282-303 B's upload race has settled.
UploadSettledB ==
  /\ pcB = "uploading"
  /\ \E s \in UploadSettlementsB :
       IF s.settle = "reject"
       THEN ThrowB("Error", s.message) /\ UNCHANGED <<jobIdB, attemptsB>>
       ELSE IF NoJobStarted(s.data)
       THEN ThrowB("Error", "Failed to start processing") /\ UNCHANGED <<jobIdB, attemptsB>>
       ELSE /\ jobIdB' = s.data.job_id
            /\ attemptsB' = InitialAttempts
            /\ resultMessage' = Msg("processing", "")
            /\ pcB' = "pollWait"
            /\ UNCHANGED <<uploading, currentStage>>
  /\ UNCHANGED <<imageUri, apiUrl, results, invVars, xhrVars, statusXhr, histVars,
                 patience, picker, screenVars>>

\* home.tsx:303-326 B's 1 s wait is over: B sends one status request.
PollWaitElapsedB ==
  /\ pcB = "pollWait"
  /\ pcB' = "statusInflight"
  /\ polled' = [polled EXCEPT !.B = @ \cup {jobIdB}]
  /\ UNCHANGED <<compVars, invVars, xhrVars, statusXhr, uploadsSent, statusRequests,
                 lastStatus, allProcessing, outcome, jobsCreated, cancelled,
                 requestsAfterCancel, uploadEvent, serviceError, analysedImage,
                 jobIdB, attemptsB, patience, picker, screenVars>>

\* home.tsx:306-324 the ways B's status promise settles.
StatusSettlementsB ==
  {StatusOnload(r) : r \in StatusResponses}
    \cup {Reject("Network error checking status"), Reject("Status check timed out")}

\* home.tsx:306-356 B's status promise has settled and its loop body goes on.
StatusSettledB ==
  /\ pcB = "statusInflight"
  /\ \E s \in StatusSettlementsB :
       IF s.settle = "reject"
       THEN ThrowB("Error", s.message) /\ UNCHANGED <<attemptsB, results>>
       ELSE IF IsCompleted(s.data)
       THEN IF s.data.results = "undefined"
            THEN /\ results' = s.data.results
                 /\ ThrowB("TypeError", "Cannot read property 'detections' of undefined")
                 /\ UNCHANGED attemptsB
            ELSE /\ results' = s.data.results
                 /\ currentStage' = 3
                 /\ resultMessage' = Msg("success", "")
                 /\ uploading' = FALSE
                 /\ pcB' = "done"
                 /\ UNCHANGED attemptsB
       ELSE IF IsError(s.data)
       THEN ThrowB("Error", ProcessingError(s.data)) /\ UNCHANGED <<attemptsB, results>>
       ELSE /\ attemptsB < patience
            /\ attemptsB' = NextAttempts(attemptsB)
            /\ IF LoopCond(attemptsB')
               THEN /\ pcB' = "pollWait"
                    /\ UNCHANGED <<resultMessage, currentStage, uploading>>
               ELSE ThrowB("Error",
                           "Processing is taking longer than expected. Please try again.")
            /\ UNCHANGED results
  /\ UNCHANGED <<imageUri, apiUrl, invVars, xhrVars, statusXhr, histVars, jobIdB,
                 patience, picker, screenVars>>

\* ------------------------------------------------------------ pickImage, step by step

\* pickImage is an async function with two awaits; the step PickImage above
\* is its run without anything in between.  Here its steps are separate: the
\* Add Photo button is tested when it is pressed, the permission answer comes
\* back over the bridge, and the picker, once open, covers the screen.

\* home.tsx:76-79, 492-496 Add Photo pressed: pickImage runs to its first await.
PressAddPhoto ==
  /\ ~uploading
  /\ picker = "closed"
  /\ resultMessage' = NoMessage
  /\ picker' = "permission"
  /\ UNCHANGED <<imageUri, apiUrl, uploading, results, currentStage, invVars, xhrVars,
                 statusXhr, histVars, bVars, patience, screenVars>>

\* home.tsx:79-92 the permission answer: denied ends pickImage with a message,
\* granted launches the picker.
PermissionAnswered ==
  /\ picker = "permission"
  /\ \/ /\ resultMessage' = Msg("permission-denied", "")
        /\ picker' = "closed"
     \/ /\ picker' = "open"
        /\ UNCHANGED resultMessage
  /\ UNCHANGED <<imageUri, apiUrl, uploading, results, currentStage, invVars, xhrVars,
                 statusXhr, histVars, bVars, patience, screenVars>>

\* home.tsx:85-106 the picker returns: dismissed, or with one image.
PickerClosed ==
  /\ picker = "open"
  /\ picker' = "closed"
  /\ \/ UNCHANGED <<imageUri, currentStage>>
     \/ \E uri \in Images :
          /\ imageUri' = uri
          /\ currentStage' = 1
  /\ UNCHANGED <<apiUrl, uploading, resultMessage, results, invVars, xhrVars,
                 statusXhr, histVars, bVars, patience, screenVars>>

NextPick == PressAddPhoto \/ PermissionAnswered \/ PickerClosed

NextB == UploadProgressB \/ UploadSettledB \/ PollWaitElapsedB \/ StatusSettledB

\* The Home screen: the Analyze button can be pressed a second time.
HomeNext == Next \/ PressAnalyzeAgain \/ NextB \/ NextPick

HomeSpec == InitWith(ShortPatience) /\ [][HomeNext]_vars

\* The handler called a second time, whatever the button shows.
ConcurrentNext == Next \/ CallAgain \/ NextB

ConcurrentSpec == InitWith(ShortPatience) /\ [][ConcurrentNext]_vars

TypeOK ==
  /\ imageUri \in {NULL} \cup Images
  /\ apiUrl \in ApiUrls
  /\ uploading \in BOOLEAN
  /\ results \in {NULL, "undefined", "results"}
  /\ currentStage \in 0..3
  /\ pc \in {"idle", "uploading", "pollWait", "statusInflight", "done"}
  /\ attempts \in 0..maxAttempts
  /\ jobId \in {NULL} \cup JobIds
  /\ xhr \in {"unsent", "inflight", "loaded", "error", "aborted"}
  /\ now \in 0..MaxClock
  /\ lastProgressTime \in 0..now
  /\ intervalActive \in BOOLEAN
  /\ intervalDue \in BOOLEAN
  /\ totalTimer \in {"unset", "armed", "due", "fired"}
  /\ statusXhr \in {"none", "inflight", "loaded", "error", "timeout"}
  /\ intervalActive => xhr = "inflight"
  /\ intervalDue => intervalActive
  /\ uploading = (pc \in {"uploading", "pollWait", "statusInflight"})
  /\ lastStatus \in {"none", "processing", "completed", "error", "failed"}
  /\ uploadEvent \in {"none", "accepted", "no-job", "unparsable", "http-error",
                       "network-error", "stalled", "timeout"}
  /\ outcome \in {"none", "UploadFailed", "Completed", "ProcessingFailed", "PollTimeout",
                   "StatusCheckFailed", "SummaryFailed"}
  /\ serviceError \in {""} \cup ServiceMessages
  /\ analysedImage \in {NULL} \cup Images
  /\ polled \in [A : SUBSET JobIds, B : SUBSET JobIdsB]
  /\ pcB = "idle" /\ jobIdB = NULL /\ attemptsB = 0
  /\ patience = maxAttempts
  /\ picker = "closed"

\* ------------------------------------------------------------ properties

Polling == {"pollWait", "statusInflight"}

\* C1: when the upload was accepted and every status response so far was
\* `processing`, at most maxAttempts status requests are issued, and the
\* invocation, once ended, has ended with the poll timeout after exactly
\* maxAttempts status requests.
C1_PollTimeoutAfterExactlyN ==
  /\ (uploadEvent = "accepted" /\ allProcessing) => statusRequests <= maxAttempts
  /\ (uploadEvent = "accepted" /\ allProcessing /\ pc = "done")
       => (outcome = "PollTimeout" /\ statusRequests = maxAttempts)
  /\ outcome = "PollTimeout" => (allProcessing /\ statusRequests = maxAttempts)

C1_Witness ==
  /\ pc = "done"
  /\ uploadEvent = "accepted"
  /\ allProcessing
  /\ outcome = "PollTimeout"
  /\ statusRequests = maxAttempts

\* C2 (as claimed): a status request that fails or times out consumes one
\* attempt and the loop goes on: the invocation does not end there, unless
\* that attempt was the last of the budget.
C2_FailedCheckIsInconclusive ==
  [][(pc = "statusInflight" /\ pc' # "statusInflight" /\ lastStatus' = "failed")
       => /\ attempts' = attempts + 1
          /\ pc' = "pollWait" \/ (attempts' = maxAttempts /\ outcome' = "PollTimeout")]_vars

\* C3: once the service has answered `error` to status check number K, the
\* invocation has ended with the processing failure, K status requests were
\* issued in all (the K-1 `processing` ones counted by attempts, and this
\* one), and no request is in flight or issued afterwards.
C3_ErrorStopsAtCheckK ==
  lastStatus = "error"
    => /\ pc = "done"
       /\ outcome = "ProcessingFailed"
       /\ statusRequests = attempts + 1
       /\ statusRequests <= maxAttempts
       /\ statusXhr # "inflight"
       /\ xhr # "inflight"
       /\ uploadsSent = 1

C3_Witness ==
  /\ lastStatus = "error"
  /\ outcome = "ProcessingFailed"
  /\ statusRequests = maxAttempts
  /\ attempts = maxAttempts - 1

\* C4: once `completed` has been observed at status check number K, exactly K
\* status requests have been issued for the job, none is in flight and none
\* is issued afterwards (the invocation has ended).
C4_NoPollAfterCompleted ==
  lastStatus = "completed"
    => /\ pc = "done"
       /\ statusRequests = attempts + 1
       /\ statusRequests <= maxAttempts
       /\ statusXhr # "inflight"

C4_Witness ==
  /\ lastStatus = "completed"
  /\ pc = "done"
  /\ statusRequests = maxAttempts

UploadFailures == {"http-error", "unparsable", "network-error", "stalled", "timeout"}

\* C5: when the upload request fails (HTTP error, unparsable body, network
\* error, stall abort, upload timeout) the invocation has ended as an upload
\* failure with no job id, and no status request was or is ever issued.
C5_FailedUploadNeverPolls ==
  uploadEvent \in UploadFailures
    => /\ pc = "done"
       /\ ~uploading
       /\ outcome = "UploadFailed"
       /\ jobId = NULL
       /\ statusRequests = 0
       /\ statusXhr = "none"

C5_Witness ==
  /\ uploadEvent = "http-error"
  /\ pc = "done"
  /\ outcome = "UploadFailed"

\* C6: an invocation sends the upload exactly once: the POST is counted once
\* as soon as the invocation has started, the upload XHR is only ever sent
\* from the idle state, and no step leads from polling, or from the end,
\* back to uploading.
C6_UploadSentOnce ==
  /\ [](uploadsSent <= 1 /\ (pc # "idle" => uploadsSent = 1))
  /\ [][/\ (pc \in Polling \cup {"done"}) => pc' # "uploading"
        /\ (xhr # "inflight" /\ xhr' = "inflight") => (pc = "idle" /\ xhr = "unsent")]_vars

C6_Witness ==
  /\ pc = "done"
  /\ outcome \in {"StatusCheckFailed", "ProcessingFailed", "PollTimeout"}
  /\ statusRequests > 1
  /\ uploadsSent = 1

\* C7 (as claimed): once the 120 s timer has ended the invocation, the upload
\* XHR is no longer in flight.
C7_TimeoutAbortsUpload ==
  uploadEvent = "timeout"
    => /\ pc = "done"
       /\ outcome = "UploadFailed"
       /\ err = "Upload timeout after 2 minutes. Image may be too large or network too slow."
       /\ xhr # "inflight"

C9_CancelStopsPolling ==
  cancelled
    => /\ requestsAfterCancel <= 1
       /\ outcome \notin {"Completed", "PollTimeout"}

C11_NoJobIdIsUploadFailure ==
  /\ [](uploadEvent = "no-job"
          => /\ pc = "done"
             /\ ~uploading
             /\ outcome = "UploadFailed"
             /\ err = "Failed to start processing"
             /\ jobId = NULL
             /\ statusRequests = 0
             /\ statusXhr = "none")
  /\ [][(uploadEvent # "no-job" /\ uploadEvent' = "no-job")
        => resultMessage' = Msg("error", "Failed to start processing")]_vars

C11_Witness ==
  /\ uploadEvent = "no-job"
  /\ xhr = "loaded"
  /\ jobsCreated = 0
  /\ resultMessage = Msg("error", "Failed to start processing")

\* C12 (as claimed): when the service answers `error` with a message m, the
\* step that receives the answer shows a message that carries m verbatim,
\* whatever m is.
C12_ServiceMessageVerbatim ==
  [][(lastStatus # "error" /\ lastStatus' = "error" /\ serviceError' # "")
       => resultMessage' = Msg("error", serviceError')]_vars

Running == {"uploading", "pollWait", "statusInflight"}

\* What the screen shows for an invocation in flight (home.tsx:193-196, 217,
\* 262, 296).
InFlightView ==
  /\ uploading
  /\ currentStage = 2
  /\ results = NULL
  /\ resultMessage.kind \in {"uploading", "upload-progress", "processing"}

\* C13 (as claimed): two concurrent invocations are independent: each has
\* asked only for the status of the job its own upload returned, and while
\* either of them is in flight the component state is that of an invocation
\* in flight, whatever the other one has done.
C13_ConcurrentInvocationsIndependent ==
  /\ polled.A \subseteq {jobId} \ {NULL}
  /\ polled.B \subseteq {jobIdB} \ {NULL}
  /\ polled.A \cap polled.B = {}
  /\ pc \in Running => InFlightView
  /\ pcB \in Running => InFlightView

\* The kinds of message the catch block shows (home.tsx:360-378).
FailureKinds == {"took-too-long", "cannot-connect", "cancelled", "error"}

\* What the service or the timers did that makes the invocation fail.
FailureObserved ==
  \/ uploadEvent \in UploadFailures \cup {"no-job"}
  \/ lastStatus \in {"failed", "error"}
  \/ lastStatus = "processing" /\ statusRequests = maxAttempts /\ statusXhr # "inflight"

\* C14: every failure (upload error, stall, upload timeout, missing job id,
\* failed status check, service `error`, poll budget exhausted) ends the
\* invocation, and the step that ends it leaves uploading false, currentStage
\* 1 and an error message shown; an invocation ended without Completed keeps
\* the error it was thrown; and while no invocation is in flight currentStage
\* is never 2.
C14_FailuresAreReported ==
  /\ [](FailureObserved => (pc = "done" /\ ~uploading /\ err # NULL /\ outcome # "Completed"))
  /\ [][(pc # "done" /\ pc' = "done" /\ outcome' # "Completed")
        => /\ ~uploading'
           /\ currentStage' = 1
           /\ resultMessage' # NoMessage
           /\ resultMessage'.kind \in FailureKinds
           /\ err' # NULL]_vars
  /\ [](pc \notin Running => currentStage # 2)

C14_Witness ==
  /\ pc = "done"
  /\ outcome = "PollTimeout"
  /\ ~uploading
  /\ currentStage = 1
  /\ resultMessage =
       Msg("error", "Processing is taking longer than expected. Please try again.")

\* C15 (as claimed): once the invocation has ended, no callback or timer it
\* left behind changes what the screen shows: the message of an upload in
\* progress, which only the upload XHR's progress handler sets, is never
\* shown after the end, and the steps of the upload XHR, the stall checker
\* and the 120 s timer leave resultMessage, results, currentStage and
\* uploading alone.
C15_NoLeftoverCallbackWrites ==
  /\ [](pc = "done" => resultMessage.kind # "upload-progress")
  /\ [][(pc = "done" /\ <<xhr, now, lastProgressTime, intervalDue, totalTimer>>'
                           # <<xhr, now, lastProgressTime, intervalDue, totalTimer>>)
        => UNCHANGED <<resultMessage, results, currentStage, uploading>>]_vars

\* C16 (as claimed): the step that receives a `completed` status answer ends
\* the invocation as Completed: currentStage 3, results taken from the
\* answer, the success message shown and no error, whether or not the answer
\* carries a `results` field.
C16_CompletedAlwaysCompletes ==
  [][(lastStatus # "completed" /\ lastStatus' = "completed")
       => /\ pc' = "done"
          /\ outcome' = "Completed"
          /\ currentStage' = 3
          /\ resultMessage' = Msg("success", "")
          /\ err' = NULL
          /\ ~uploading']_vars

StallError == "Upload stalled. Network may be too slow."

C18_StatusRequestsSequential ==
  /\ [][statusRequests' # statusRequests
        => /\ statusRequests' = statusRequests + 1
           /\ pc = "pollWait"
           /\ statusXhr # "inflight"
           /\ pc' = "statusInflight"
           /\ statusXhr' = "inflight"]_vars
  /\ [][(pc # "pollWait" /\ pc' = "pollWait")
        => \/ pc = "uploading" /\ statusRequests = 0 /\ statusXhr = "none"
           \/ pc = "statusInflight" /\ statusXhr' # "inflight"]_vars
  /\ [][(pc = "uploading" /\ pc' # "uploading") => pc' \in {"pollWait", "done"}]_vars
  /\ [](statusXhr = "inflight" <=> pc = "statusInflight")
  /\ [](pc = "pollWait" => statusRequests = attempts)

C18_Witness ==
  /\ pc = "statusInflight"
  /\ statusXhr = "inflight"
  /\ statusRequests = 3
  /\ attempts = 2

\* C19 (as claimed): on the Home screen at most one analysis is in flight:
\* the two invocations never run at the same time, uploading is true exactly
\* while one of them runs, a second invocation starts only while uploading
\* is false, and while uploading is true imageUri does not change.
C19_OneAnalysisInFlight ==
  /\ [](~(pc \in Running /\ pcB \in Running))
  /\ [](uploading <=> (pc \in Running \/ pcB \in Running))
  /\ [][(pcB = "idle" /\ pcB' # "idle") => (~uploading /\ pc = "done")]_vars
  /\ [][uploading => imageUri' = imageUri]_vars

\* C20 (as claimed): whenever results are shown they are the results of the
\* analysis of the image currently selected.
C20_ResultsBelongToSelectedImage ==
  results = "results" => analysedImage = imageUri

\* ------------------------------------------------------------ PostCard

\* Taps on one card are followed up to this bound.
MaxTaps == 3
\* The counts a post comes with (post.likes, post.saves) range up to this bound.
MaxStartCount == 1

\* part_004:90 Math.max(0, n)
Max0(n) == IF n < 0 THEN 0 ELSE n

\* part_004:90, 104 the optimistic update of a count.
Optimistic(newFlag, c) == IF newFlag THEN c + 1 ELSE Max0(c - 1)

\* part_004:96, 109 the update of a count in the catch block.
Revert(newFlag, c) == IF newFlag THEN Max0(c - 1) ELSE c + 1

\* part_004:38-42 the state after the first render, for any post.
CardInit ==
  /\ liked \in BOOLEAN
  /\ likesCount \in 0..MaxStartCount
  /\ saved \in BOOLEAN
  /\ savesCount \in 0..MaxStartCount
  /\ taps = <<>>
  /\ cardStart = [liked |-> liked, likesCount |-> likesCount,
                  saved |-> saved, savesCount |-> savesCount]

\* The taps of one kind whose request has not settled.
InFlight(kind) ==
  {i \in DOMAIN taps : taps[i].kind = kind /\ taps[i].state = "inflight"}

\* One tap: what it asked for, the state of its request, and (history) the
\* flag and count shown before it and whether no request was in flight then.
Tap(kind, newFlag, flag, count) ==
  [kind |-> kind, newValue |-> newFlag, state |-> "inflight",
   before |-> [flag |-> flag, count |-> count], alone |-> InFlight(kind) = {}]

\* part_004:86-92 handleLike up to its await.
HandleLike ==
  /\ Len(taps) < MaxTaps
  /\ LET newLiked == ~liked IN
       /\ liked' = newLiked
       /\ likesCount' = Optimistic(newLiked, likesCount)
       /\ taps' = Append(taps, Tap("like", newLiked, liked, likesCount))
  /\ UNCHANGED <<saved, savesCount, cardStart, homeVars, barVars, feedVars>>

\* part_004:92 the onLike promise resolves.
LikeResolves ==
  /\ \E i \in InFlight("like") : taps' = [taps EXCEPT ![i].state = "ok"]
  /\ UNCHANGED <<liked, likesCount, saved, savesCount, cardStart, homeVars, barVars,
                 feedVars>>

\* part_004:93-98 the onLike promise rejects: the catch block.
LikeRejects ==
  /\ \E i \in InFlight("like") :
       /\ liked' = ~liked
       /\ likesCount' = Revert(taps[i].newValue, likesCount)
       /\ taps' = [taps EXCEPT ![i].state = "failed"]
  /\ UNCHANGED <<saved, savesCount, cardStart, homeVars, barVars, feedVars>>

\* part_004:101-106 handleSave up to its await.
HandleSave ==
  /\ Len(taps) < MaxTaps
  /\ LET newSaved == ~saved IN
       /\ saved' = newSaved
       /\ savesCount' = Optimistic(newSaved, savesCount)
       /\ taps' = Append(taps, Tap("save", newSaved, saved, savesCount))
  /\ UNCHANGED <<liked, likesCount, cardStart, homeVars, barVars, feedVars>>

\* part_004:106 the onSave promise resolves.
SaveResolves ==
  /\ \E i \in InFlight("save") : taps' = [taps EXCEPT ![i].state = "ok"]
  /\ UNCHANGED <<liked, likesCount, saved, savesCount, cardStart, homeVars, barVars,
                 feedVars>>

\* part_004:107-111 the onSave promise rejects: the catch block.
SaveRejects ==
  /\ \E i \in InFlight("save") :
       /\ saved' = ~saved
       /\ savesCount' = Revert(taps[i].newValue, savesCount)
       /\ taps' = [taps EXCEPT ![i].state = "failed"]
  /\ UNCHANGED <<liked, likesCount, cardStart, homeVars, barVars, feedVars>>

CardNext ==
  \/ HandleLike
  \/ LikeResolves
  \/ LikeRejects
  \/ HandleSave
  \/ SaveResolves
  \/ SaveRejects

\* A card on screen, for any post.
CardStart == HomeInit(maxAttempts) /\ CardInit /\ BarAtRest /\ FeedAtRest

CardSpec == CardStart /\ [][CardNext]_vars

\* The taps of one kind made after tap i.
LaterTaps(i) == {j \in DOMAIN taps : j > i /\ taps[j].kind = taps[i].kind}

\* C21 (as claimed): when the request of a tap rejects, and no other request
\* of its kind was in flight at the tap and no tap of its kind came after it,
\* the flag and the count are again what they were before the tap; for like
\* and for save.
C21_RevertRestores ==
  [][\A i \in DOMAIN taps :
       (taps[i].state = "inflight" /\ taps'[i].state = "failed"
          /\ taps[i].alone /\ LaterTaps(i) = {})
         => IF taps[i].kind = "like"
            THEN liked' = taps[i].before.flag /\ likesCount' = taps[i].before.count
            ELSE saved' = taps[i].before.flag /\ savesCount' = taps[i].before.count]_vars

\* The like taps whose request succeeded.
SucceededLikes == {i \in DOMAIN taps : taps[i].kind = "like" /\ taps[i].state = "ok"}

\* The value asked for by the most recent like tap whose request succeeded,
\* or the value the card started with.
LastConfirmedLiked ==
  IF SucceededLikes = {} THEN cardStart.liked
  ELSE taps[CHOOSE i \in SucceededLikes : \A j \in SucceededLikes : j <= i].newValue

\* C22 (as claimed): once no onLike request is in flight the liked flag shown
\* is the value asked for by the most recent tap whose request succeeded, or
\* the initial value if none did.
C22_LikedIsLastConfirmed ==
  InFlight("like") = {} => liked = LastConfirmedLiked

\* ------------------------------------------------------------ Discover

\* create-post.tsx:173 const LIMIT = 24
LIMIT == 24
\* Feed requests are followed up to this many per screen.
MaxFeedRequests == 4

\* Texts the search bar hands to setQuery.
FeedQueries == {"", "hats"}

\* create-post.tsx:190 the offset a fetchPosts call asks for; page is the
\* value its closure holds.
Offset(reset, seenPage) == IF reset THEN 0 ELSE seenPage * LIMIT

\* create-post.tsx:186-198, 220-223 fetchPosts up to its first await, called
\* from a closure that holds seenLoading and seenPage: with loading true it
\* returns inside the try block, so the finally block runs; otherwise it sets
\* loading and sends the request.  shown is what refreshing was set to by the
\* caller just before.
FetchPosts(reset, q, seenLoading, seenPage, shown) ==
  IF seenLoading
  THEN /\ loading' = FALSE
       /\ refreshing' = FALSE
       /\ UNCHANGED <<issued, feedRequests>>
  ELSE /\ Len(issued) < MaxFeedRequests
       /\ loading' = TRUE
       /\ refreshing' = shown
       /\ issued' = Append(issued, [reset |-> reset, q |-> q,
                                    offset |-> Offset(reset, seenPage)])
       /\ feedRequests' = feedRequests \cup {Len(issued) + 1}

\* create-post.tsx:226-238 the state after the mount effects: the first load
\* is in flight and the search effect has armed its 350 ms timer, whose
\* callback holds the fetchPosts of the first render (loading false, page 0).
FeedInit ==
  /\ query = ""
  /\ posts = <<>>
  /\ page = 0
  /\ loading = TRUE
  /\ refreshing = FALSE
  /\ hasMore = TRUE
  /\ issued = <<[reset |-> TRUE, q |-> "", offset |-> 0]>>
  /\ feedRequests = {1}
  /\ searchTimer = {[q |-> "", loading |-> FALSE, page |-> 0]}

\* create-post.tsx:302, 232-238 the search bar calls setQuery with another
\* text: the effect's cleanup clears the pending timer and a new one is
\* armed, whose callback holds the fetchPosts of this render.
QueryChanged ==
  /\ \E q \in FeedQueries \ {query} :
       /\ query' = q
       /\ searchTimer' = {[q |-> q, loading |-> loading, page |-> page]}
  /\ UNCHANGED <<posts, page, loading, refreshing, hasMore, feedRequests, issued,
                 homeVars, cardVars, barVars>>

\* create-post.tsx:233-236 the query has stayed unchanged for 350 ms: the
\* timer's callback runs.
SearchTimerFires ==
  /\ \E t \in searchTimer : FetchPosts(TRUE, t.q, t.loading, t.page, TRUE)
  /\ searchTimer' = {}
  /\ UNCHANGED <<query, posts, page, hasMore, homeVars, cardVars, barVars>>

\* create-post.tsx:240-243 pull to refresh.
OnRefresh ==
  /\ FetchPosts(TRUE, query, loading, page, TRUE)
  /\ UNCHANGED <<query, posts, page, hasMore, searchTimer, homeVars, cardVars, barVars>>

\* create-post.tsx:245-248 the list reached its end.
LoadMore ==
  /\ hasMore
  /\ ~loading
  /\ FetchPosts(FALSE, query, loading, page, refreshing)
  /\ UNCHANGED <<query, posts, page, hasMore, searchTimer, homeVars, cardVars, barVars>>

\* What a feed request can come back with: a full page, a shorter one, a
\* response that is not ok, or a rejection (network, JSON).
FeedOutcomes == {"full", "short", "not-ok", "throws"}

\* create-post.tsx:198-223 a feed request settles and fetchPosts runs to its end.
FeedResponse ==
  /\ \E i \in feedRequests, o \in FeedOutcomes :
       /\ feedRequests' = feedRequests \ {i}
       /\ IF o \in {"full", "short"}
          THEN /\ IF issued[i].reset
                  THEN /\ posts' = <<[q |-> issued[i].q, offset |-> issued[i].offset]>>
                       /\ page' = 1
                  ELSE /\ posts' = Append(posts, [q |-> issued[i].q,
                                                  offset |-> issued[i].offset])
                       /\ page' = page + 1
               /\ hasMore' = (o = "full")
          ELSE /\ hasMore' = FALSE
               /\ UNCHANGED <<posts, page>>
  /\ loading' = FALSE
  /\ refreshing' = FALSE
  /\ UNCHANGED <<query, searchTimer, issued, homeVars, cardVars, barVars>>

FeedNext ==
  \/ QueryChanged
  \/ SearchTimerFires
  \/ OnRefresh
  \/ LoadMore
  \/ FeedResponse

\* The Discover screen after its mount.
FeedStart == HomeInit(maxAttempts) /\ CardAtRest /\ BarAtRest /\ FeedInit

FeedSpec == FeedStart /\ [][FeedNext]_vars

\* C23 (as claimed): at most one feed request is in flight, loading is true
\* while one is, a request is sent only while loading is false, and loading
\* and refreshing turn false only when a request settles: a fetchPosts call
\* made while loading is true changes nothing.
C23_OneFeedRequestInFlight ==
  /\ [](Cardinality(feedRequests) <= 1)
  /\ [](feedRequests # {} => loading)
  /\ [][issued' # issued => ~loading]_vars
  /\ [][(loading /\ feedRequests' = feedRequests)
        => (loading' = loading /\ (refreshing => refreshing'))]_vars

\* C24 (as claimed): a reset asks for offset 0 and a load-more for the offset
\* after the request before it (LIMIT after a reset, LIMIT more after a
\* load-more), so no offset is skipped or asked for twice; the pages shown
\* are those of one query at offsets 0, LIMIT, 2*LIMIT, ... and page counts
\* them; posts and page change only when a request settles.
C24_PagesInOrder ==
  /\ [](\A i \in DOMAIN issued :
          IF issued[i].reset
          THEN issued[i].offset = 0
          ELSE /\ i > 1
               /\ issued[i].offset = IF issued[i - 1].reset THEN LIMIT
                                     ELSE issued[i - 1].offset + LIMIT)
  /\ [](/\ page = Len(posts)
        /\ \A k \in DOMAIN posts :
             posts[k].offset = (k - 1) * LIMIT /\ posts[k].q = posts[1].q)
  /\ [][(posts' # posts \/ page' # page) => feedRequests' # feedRequests]_vars

\* C25 (as claimed): when the query has stayed unchanged for 350 ms (the
\* search timer fires), a request for that query with offset 0 is sent, and
\* when a reset request comes back with a page, posts are replaced by it.
C25_SearchResetsFeed ==
  /\ [][(searchTimer # {} /\ searchTimer' = {})
        => \E i \in feedRequests' \ feedRequests :
             issued'[i] = [reset |-> TRUE, q |-> query, offset |-> 0]]_vars
  /\ [][\A i \in feedRequests \ feedRequests' :
          (issued[i].reset /\ page' # page)
            => posts' = <<[q |-> issued[i].q, offset |-> 0]>>]_vars

\* ------------------------------------------------------------ SearchBar

\* part_005:17 setTimeout(..., 300)
DebounceMs == 300
\* Time passes in steps of this many ms while the search bar is followed.
BarTickMs == 100
\* Texts are followed up to this many characters.
MaxTextLen == 2

\* The characters typed: a letter and a space.
Chars == {"a", " "}

\* Texts of the input, as sequences of characters.
Texts == UNION {[1..n -> Chars] : n \in 0..MaxTextLen}

RECURSIVE TrimStart(_)
\* String.prototype.trim, the leading spaces.
TrimStart(t) == IF t # <<>> /\ Head(t) = " " THEN TrimStart(Tail(t)) ELSE t

RECURSIVE TrimEnd(_)
\* String.prototype.trim, the trailing spaces.
TrimEnd(t) ==
  IF t # <<>> /\ t[Len(t)] = " " THEN TrimEnd(SubSeq(t, 1, Len(t) - 1)) ELSE t

\* part_005:17 text.trim()
Trim(t) == TrimEnd(TrimStart(t))

\* An effect cleanup that clears nothing.
CleanupNothing(timers) == timers

\* part_005:18 the effect's cleanup: clearTimeout of the pending timer.
Cleanup(timers) == {}

\* part_005:17 the timer the effect arms; its callback holds the text.
Debounce(t) == [text |-> t, left |-> DebounceMs]

\* part_005:13-21 the state after the mount effects, for any value prop.
BarInit ==
  /\ barValue \in Texts
  /\ barText = barValue
  /\ barTimers = {Debounce(barText)}
  /\ sinceChange = 0
  /\ delivered = {}

\* part_005:28, 16-19 a keystroke: setText with another text; the effect's
\* cleanup runs and the effect arms a new timer.
OnChangeText ==
  /\ \E t \in Texts \ {barText} :
       /\ barText' = t
       /\ barTimers' = Cleanup(barTimers) \cup {Debounce(t)}
  /\ sinceChange' = 0
  /\ UNCHANGED <<barValue, delivered, homeVars, cardVars, feedVars>>

\* Time passes; a timer that is due runs first.
BarTick ==
  /\ \A t \in barTimers : t.left > 0
  /\ sinceChange < DebounceMs \/ barTimers # {}
  /\ barTimers' = {[t EXCEPT !.left = @ - BarTickMs] : t \in barTimers}
  /\ sinceChange' = IF sinceChange < DebounceMs THEN sinceChange + BarTickMs
                    ELSE sinceChange
  /\ UNCHANGED <<barText, barValue, delivered, homeVars, cardVars, feedVars>>

\* part_005:17, 21 and create-post.tsx:302 a timer fires: onChange gets the
\* trimmed text, the parent stores it and hands it back as the value prop,
\* and the value effect sets the text to it (a change of text re-arms the
\* debounce).
BarTimerFires ==
  /\ \E t \in barTimers :
       /\ t.left <= 0
       /\ LET q == Trim(t.text)
              rest == barTimers \ {t}
          IN /\ delivered' = {[arg |-> q, text |-> t.text, shown |-> barText,
                              since |-> sinceChange]}
             /\ barValue' = q
             /\ IF q # barValue /\ q # barText
                THEN /\ barText' = q
                     /\ barTimers' = Cleanup(rest) \cup {Debounce(q)}
                     /\ sinceChange' = 0
                ELSE /\ barTimers' = rest
                     /\ UNCHANGED <<barText, sinceChange>>
  /\ UNCHANGED <<homeVars, cardVars, feedVars>>

BarNext ==
  \/ OnChangeText
  \/ BarTick
  \/ BarTimerFires

\* The search bar after its mount.
BarStart == HomeInit(maxAttempts) /\ CardAtRest /\ FeedAtRest /\ BarInit

BarSpec == BarStart /\ [][BarNext]_vars

\* C26: onChange is called only with the trimmed form of the text shown, and
\* only when that text has been unchanged for 300 ms; the only timer pending
\* is the one of the text shown, armed when it last changed, so a keystroke
\* cancels the call pending for the text before it.
C26_DebouncedOnChange ==
  /\ \A d \in delivered :
       /\ d.text = d.shown
       /\ d.arg = Trim(d.shown)
       /\ d.since >= DebounceMs
  /\ \A t \in barTimers :
       /\ t.text = barText
       /\ t.left = DebounceMs - sinceChange
  /\ Cardinality(barTimers) <= 1

C26_Witness ==
  /\ delivered # {}
  /\ \A d \in delivered : d.text = <<"a", " ">> /\ d.arg = <<"a">>
  /\ barText = <<"a">>
  /\ barTimers = {Debounce(<<"a">>)}

====
